---- MODULE Spec2Model ----
(***************************************************************************)
(* Model of the database adapter of the Lightweight Data Warehouse:        *)
(* DuckDBAdapter (src/config/duckdb_adapter.py) and the scoped-resource    *)
(* protocol of DatabaseInterface (src/config/database_interface.py).       *)
(*                                                                         *)
(* Every adapter method is an operator from an adapter/engine state record *)
(* to the set of its possible results [s, err, ret]: the state it leaves,  *)
(* the exception it raises ("none" if it returns) and its return value.    *)
(* A method that calls another is the composition of the operators (Then). *)
(* One action per public method applies the operator to the current state  *)
(* and records the call, with the engine calls it made, in `last`.         *)
(*                                                                         *)
(* The raw layer is modelled on top of it: the factory get_database        *)
(* (src/config/database_config.py), ParquetLoader                          *)
(* (src/extraction/parquet_loader.py), the path helpers                    *)
(* (src/config/files_utils.py) and DuckDBReader                            *)
(* (src/transformation/duckdb_reader.py).  Strings are sequences of        *)
(* one-character strings and paths are sequences of such strings, so that  *)
(* formatting, parsing, case folding and path comparison are computed.     *)
(***************************************************************************)
EXTENDS Integers, Sequences, FiniteSets, TLC

\* ---- bounds ------------------------------------------------------------
MaxHandles == 2   \* handles the engine hands out
MaxRows == 2      \* rows the database file holds, all tables together

\* ---- value sets --------------------------------------------------------
NoConn == 0
TableNames == {"t1", "t2"}
RowValues == {"r1", "r2"}
BadParam == "bad"
ParquetPaths == {"missing.parquet", "corrupt.parquet", "rows.parquet"}
IfExistsValues == {"fail", "replace", "append", "other"}

\* constructor arguments: the defaults, a memory limit the engine rejects,
\* a thread count the engine rejects
Configs == {<<"4GB", 4>>, <<"bogus", 4>>, <<"4GB", 0>>}

\* the DataFrames passed to create_table_from_df
Frames == {<<>>, <<"r1">>, <<"r2">>}

\* the parameter lists passed to execute_many: empty, one entry, two entries
\* in both orders, a rejected entry first, in the middle and last
ParamLists ==
    {<<>>, <<"r1">>, <<"r1", "r2">>, <<"r2", "r1">>,
     <<BadParam, "r1">>, <<"r1", BadParam>>, <<"r1", BadParam, "r2">>}

VARIABLES
    conn,          \* self.conn: NoConn (None) or the handle held
    memory_limit,  \* self.memory_limit
    threads,       \* self.threads
    open,          \* engine: handles opened and not yet closed
    memSet,        \* engine: open handles on which SET memory_limit succeeded
    thrSet,        \* engine: open handles on which SET threads succeeded
    nextHandle,    \* engine: identity of the next handle duckdb.connect returns
    catalog,       \* database file: names of the tables that exist
    tables,        \* database file: table name -> its rows (<<>> if absent)
    files,         \* file system: parquet path -> [state, rows]
    scope,         \* "outside" or "inside" a `with db:` block
    last,          \* the last call: method, outcome, printed return value, calls made
    base_path,     \* ParquetLoader.base_path
    dirs,          \* file system: the directories that exist (absolute paths)
    disk,          \* file system: absolute path of a .parquet file -> its rows
    loads,         \* history: path -> table and number (1, or 2 for more) of the
                   \* loads that returned it
    out            \* the last call of the factory, the Loader, the helper or
                   \* the Reader: operation, outcome, printed return value

vars == <<conn, memory_limit, threads, open, memSet, thrSet, nextHandle,
          catalog, tables, files, scope, last,
          base_path, dirs, disk, loads, out>>

\* ---- state and result records -----------------------------------------
Cur ==
    [conn |-> conn, memory_limit |-> memory_limit, threads |-> threads,
     open |-> open, memSet |-> memSet, thrSet |-> thrSet,
     nextHandle |-> nextHandle, catalog |-> catalog, tables |-> tables,
     files |-> files, base_path |-> base_path, dirs |-> dirs, disk |-> disk,
     trace |-> <<>>]

Ok(s, ret) == [s |-> s, err |-> "none", ret |-> ret]
Raise(s, err) == [s |-> s, err |-> err, ret |-> "raised"]
Traced(s, call) == [s EXCEPT !.trace = Append(@, call)]

MissingFile == [state |-> "missing", rows |-> <<>>]
CorruptFile == [state |-> "corrupt", rows |-> <<>>]
ParquetFile(rows) == [state |-> "parquet", rows |-> rows]

\* A method returns the set of its possible results: one result where the
\* code decides the outcome, several where the engine does.
\* Then(R, F): the statements F that follow a call with results R; an
\* exception raised by the call propagates and F is not run.
Then(R, F(_)) == UNION {IF r.err # "none" THEN {r} ELSE F(r) : r \in R}

\* ---- the embedded engine ----------------------------------------------
ValidMemoryLimit(m) == m = "4GB"
ValidThreads(t) == t >= 1

\* duckdb.connect(path): a new handle on the database file
EngineOpen(s) ==
    {Ok(Traced([s EXCEPT !.open = @ \cup {s.nextHandle}, !.nextHandle = @ + 1],
               <<"open">>), s.nextHandle)}

\* handle.execute("SET memory_limit=..."), handle.execute("SET threads=...")
EngineSet(s, setting) ==
    IF setting = "memory_limit"
    THEN IF ValidMemoryLimit(s.memory_limit)
         THEN {Ok(Traced([s EXCEPT !.memSet = @ \cup {s.conn}], <<"SET memory_limit">>),
                  "None")}
         ELSE {Raise(Traced(s, <<"SET memory_limit">>), "EngineError")}
    ELSE IF ValidThreads(s.threads)
         THEN {Ok(Traced([s EXCEPT !.thrSet = @ \cup {s.conn}], <<"SET threads">>),
                  "None")}
         ELSE {Raise(Traced(s, <<"SET threads">>), "EngineError")}

\* handle.close()
EngineClose(s, h) ==
    {Ok(Traced([s EXCEPT !.open = @ \ {h}, !.memSet = @ \ {h}, !.thrSet = @ \ {h}],
               <<"close">>), "None")}

\* a statement's source: <<"df", rows>> is a DataFrame in scope,
\* <<"parquet", path>> is read_parquet('path')
SourceRows(s, src) ==
    IF src[1] = "df" THEN src[2] ELSE s.files[src[2]].rows

SourceReadable(s, src) ==
    src[1] = "df" \/ s.files[src[2]].state = "parquet"

\* what handle.execute(q) does to the database file, and what it returns;
\* auto-commit: the effect is there as soon as the statement returns
StatementResult(s, q) ==
    IF s.conn \notin s.open THEN Raise(s, "EngineError")
    ELSE IF q[1] = "SELECT" THEN Ok(s, <<"row">>)
    ELSE IF q[1] = "COUNT_TABLES"
        THEN Ok(s, <<IF q[2] \in s.catalog THEN 1 ELSE 0>>)
    ELSE IF q[1] = "COUNT_ROWS"
        THEN IF q[2] \notin s.catalog THEN Raise(s, "EngineError")
             ELSE Ok(s, <<Len(s.tables[q[2]])>>)
    ELSE IF q[1] = "INSERT_VALUES"
        THEN IF q[2] \notin s.catalog \/ q[3] = BadParam THEN Raise(s, "EngineError")
             ELSE Ok([s EXCEPT !.tables[q[2]] = Append(@, q[3])], <<>>)
    ELSE IF q[1] = "DROP_IF_EXISTS"
        THEN Ok([s EXCEPT !.catalog = @ \ {q[2]}, !.tables[q[2]] = <<>>], <<>>)
    ELSE IF q[1] = "CREATE_AS"
        THEN IF q[2] \in s.catalog \/ ~SourceReadable(s, q[3]) THEN Raise(s, "EngineError")
             ELSE Ok([s EXCEPT !.catalog = @ \cup {q[2]},
                               !.tables[q[2]] = SourceRows(s, q[3])], <<>>)
    ELSE IF q[1] = "INSERT_SELECT"
        THEN IF q[2] \notin s.catalog \/ ~SourceReadable(s, q[3])
             THEN Raise(s, "EngineError")
             ELSE Ok([s EXCEPT !.tables[q[2]] = @ \o SourceRows(s, q[3])], <<>>)
    ELSE IF q[1] = "CHECKPOINT" THEN Ok(s, <<>>)
    ELSE Raise(s, "EngineError")

\* handle.execute(q)
EngineExecute(s, q) == {StatementResult(Traced(s, q), q)}

\* handle.commit() / handle.rollback(): the engine ends the transaction, or
\* refuses (it has none to end); auto-commit leaves the tables as they are
EngineEndTransaction(s, call) ==
    {Ok(Traced(s, <<call>>), "None"), Raise(Traced(s, <<call>>), "EngineError")}

\* ---- DuckDBAdapter ------------------------------------------------------
\* the body of connect() under `if self.conn is None`
OpenAndConfigure(s) ==
    Then(EngineOpen(s), LAMBDA o :
    Then(EngineSet([o.s EXCEPT !.conn = o.ret], "memory_limit"), LAMBDA m :
    Then(EngineSet(m.s, "threads"), LAMBDA n :
    {Ok(n.s, n.s.conn)})))

connect_AlwaysOpens(s) == OpenAndConfigure(s)

\* connect(): opens and configures a handle unless one is held
connect(s) ==
    IF s.conn = NoConn THEN OpenAndConfigure(s) ELSE {Ok(s, s.conn)}

close_KeepsReference(s) ==
    IF s.conn # NoConn THEN EngineClose(s, s.conn) ELSE {Ok(s, "None")}

\* close(): releases the handle if one is held
close(s) ==
    IF s.conn # NoConn
    THEN Then(EngineClose(s, s.conn), LAMBDA c :
         {Ok([c.s EXCEPT !.conn = NoConn], "None")})
    ELSE {Ok(s, "None")}

\* `if self.conn is None: self.connect()`
EnsureConnected(s) ==
    IF s.conn = NoConn THEN connect(s) ELSE {Ok(s, "None")}

execute_Reconnects(s, q) ==
    Then(OpenAndConfigure(s), LAMBDA c : EngineExecute(c.s, q))

\* execute(query, params): lazily connects, then runs the statement
execute(s, q) ==
    Then(EnsureConnected(s), LAMBDA c : EngineExecute(c.s, q))

RECURSIVE RunEntries_SkipsFailures(_, _, _, _)
RunEntries_SkipsFailures(s, t, params_list, i) ==
    IF i > Len(params_list) THEN {Ok(s, "None")}
    ELSE UNION {RunEntries_SkipsFailures(r.s, t, params_list, i + 1) :
                  r \in EngineExecute(s, <<"INSERT_VALUES", t, params_list[i]>>)}

\* the loop of execute_many over params_list[i..]
RECURSIVE RunEntries(_, _, _, _)
RunEntries(s, t, params_list, i) ==
    IF i > Len(params_list) THEN {Ok(s, "None")}
    ELSE Then(EngineExecute(s, <<"INSERT_VALUES", t, params_list[i]>>), LAMBDA r :
         RunEntries(r.s, t, params_list, i + 1))

\* execute_many(query, params_list), the query inserting its parameter into t
execute_many(s, t, params_list) ==
    Then(EnsureConnected(s), LAMBDA c : RunEntries(c.s, t, params_list, 1))

\* fetch_one / fetch_all / fetch_df: execute, then materialize the result
fetch_one(s, q) ==
    Then(execute(s, q), LAMBDA r : {Ok(r.s, r.ret)})

fetch_all(s, q) ==
    Then(execute(s, q), LAMBDA r : {Ok(r.s, r.ret)})

fetch_df(s, q) ==
    Then(execute(s, q), LAMBDA r : {Ok(r.s, r.ret)})

table_exists_AnyTable(s, table_name) ==
    Then(fetch_one(s, <<"COUNT_TABLES", table_name>>), LAMBDA r :
    {Ok(r.s, r.s.catalog # {})})

\* table_exists(name): counts the catalog entries of that name
table_exists(s, table_name) ==
    Then(fetch_one(s, <<"COUNT_TABLES", table_name>>), LAMBDA r :
    {Ok(r.s, r.ret[1] > 0)})

\* lines 117-120 of create_table_from_df, 143-146 of create_table_from_parquet:
\* what to do about a table that is already there
ConflictPolicy(exists, if_exists) ==
    IF exists /\ if_exists = "fail" THEN "raise"
    ELSE IF exists /\ if_exists = "replace" THEN "drop"
    ELSE "keep"

\* lines 123-126 and 149-152: the statement that loads the source
LoadStatement(exists, if_exists, table_name, src) ==
    IF if_exists = "append" /\ exists
    THEN <<"INSERT_SELECT", table_name, src>>
    ELSE <<"CREATE_AS", table_name, src>>

\* the statements of both create_table methods after the existence check
ResolveConflict(s, policy, table_name) ==
    IF policy = "raise" THEN {Raise(s, "ValueError")}
    ELSE IF policy = "drop" THEN execute(s, <<"DROP_IF_EXISTS", table_name>>)
    ELSE {Ok(s, "None")}

create_table_from_df_FailOverwrites(s, df, table_name, if_exists) ==
    Then(EnsureConnected(s), LAMBDA c :
    Then(table_exists(c.s, table_name), LAMBDA e :
    Then(ResolveConflict(e.s, IF e.ret THEN "drop" ELSE "keep", table_name), LAMBDA d :
    Then(EngineExecute(d.s, <<"CREATE_AS", table_name, <<"df", df>>>>), LAMBDA r :
    IF e.ret /\ if_exists = "fail" THEN {Raise(r.s, "ValueError")}
    ELSE {Ok(r.s, "None")}))))

create_table_from_df_ReplaceAppends(s, df, table_name, if_exists) ==
    Then(EnsureConnected(s), LAMBDA c :
    Then(table_exists(c.s, table_name), LAMBDA e :
    Then(ResolveConflict(e.s, IF e.ret /\ if_exists = "fail" THEN "raise" ELSE "keep",
                         table_name), LAMBDA d :
    Then(EngineExecute(d.s, LoadStatement(e.ret,
                                IF if_exists = "replace" THEN "append" ELSE if_exists,
                                table_name, <<"df", df>>)), LAMBDA r :
    {Ok(r.s, "None")}))))

create_table_from_df_AppendRecreates(s, df, table_name, if_exists) ==
    Then(EnsureConnected(s), LAMBDA c :
    Then(table_exists(c.s, table_name), LAMBDA e :
    Then(ResolveConflict(e.s, ConflictPolicy(e.ret,
                                  IF if_exists = "append" THEN "replace" ELSE if_exists),
                         table_name), LAMBDA d :
    Then(EngineExecute(d.s, <<"CREATE_AS", table_name, <<"df", df>>>>), LAMBDA r :
    {Ok(r.s, "None")}))))

\* create_table_from_df(df, table_name, if_exists)
create_table_from_df(s, df, table_name, if_exists) ==
    Then(EnsureConnected(s), LAMBDA c :
    Then(table_exists(c.s, table_name), LAMBDA e :
    Then(ResolveConflict(e.s, ConflictPolicy(e.ret, if_exists), table_name), LAMBDA d :
    Then(EngineExecute(d.s, LoadStatement(e.ret, if_exists, table_name, <<"df", df>>)),
         LAMBDA r :
    {Ok(r.s, "None")}))))

create_table_from_parquet_ChecksFileLate(s, parquet_path, table_name, if_exists) ==
    Then(table_exists(s, table_name), LAMBDA e :
    Then(ResolveConflict(e.s, ConflictPolicy(e.ret, if_exists), table_name), LAMBDA d :
    IF d.s.files[parquet_path].state = "missing"
    THEN {Raise(d.s, "FileNotFoundError")}
    ELSE Then(execute(d.s, LoadStatement(e.ret, if_exists, table_name,
                                         <<"parquet", parquet_path>>)), LAMBDA r :
         Then(fetch_one(r.s, <<"COUNT_ROWS", table_name>>), LAMBDA n :
         {Ok(n.s, "None")}))))

\* create_table_from_parquet(parquet_path, table_name, if_exists)
create_table_from_parquet(s, parquet_path, table_name, if_exists) ==
    IF s.files[parquet_path].state = "missing" THEN {Raise(s, "FileNotFoundError")}
    ELSE Then(table_exists(s, table_name), LAMBDA e :
         Then(ResolveConflict(e.s, ConflictPolicy(e.ret, if_exists), table_name),
              LAMBDA d :
         Then(execute(d.s, LoadStatement(e.ret, if_exists, table_name,
                                         <<"parquet", parquet_path>>)), LAMBDA r :
         Then(fetch_one(r.s, <<"COUNT_ROWS", table_name>>), LAMBDA n :
         {Ok(n.s, "None")}))))

\* commit()
commit(s) ==
    IF s.conn # NoConn THEN EngineEndTransaction(s, "commit") ELSE {Ok(s, "None")}

\* rollback()
rollback(s) ==
    IF s.conn # NoConn THEN EngineEndTransaction(s, "rollback") ELSE {Ok(s, "None")}

\* vacuum()
vacuum(s) ==
    Then(EnsureConnected(s), LAMBDA c :
    Then(EngineExecute(c.s, <<"CHECKPOINT">>), LAMBDA r :
    {Ok(r.s, "None")}))

\* ---- DatabaseInterface: the scoped resource -----------------------------
\* __enter__()
enter(s) == connect(s)

\* __exit__(exc_type, exc_val, exc_tb); exc is `exc_type is not None`
exit(s, exc) ==
    Then(IF exc THEN rollback(Traced(s, <<"self.rollback">>)) ELSE {Ok(s, "None")},
         LAMBDA rb :
    close(Traced(rb.s, <<"self.close">>)))

\* ---- strings (str) ---------------------------------------------------------
\* a string is the sequence of its characters
Lowercase ==
    <<"a", "b", "c", "d", "e", "f", "g", "h", "i", "j", "k", "l", "m",
      "n", "o", "p", "q", "r", "s", "t", "u", "v", "w", "x", "y", "z">>
Uppercase ==
    <<"A", "B", "C", "D", "E", "F", "G", "H", "I", "J", "K", "L", "M",
      "N", "O", "P", "Q", "R", "S", "T", "U", "V", "W", "X", "Y", "Z">>
DecimalDigits == <<"0", "1", "2", "3", "4", "5", "6", "7", "8", "9">>
Whitespace == {" ", "\t", "\n"}

\* the characters of the model in code point order (str comparison)
CodePoints ==
    <<"\t", "\n", " ", "'", "*", ".", "/">> \o DecimalDigits \o <<"=">>
        \o Uppercase \o <<"_">> \o Lowercase

ord(c) == CHOOSE i \in 1..Len(CodePoints) : CodePoints[i] = c

\* str.lower(), str.upper()
lower(str) ==
    [i \in 1..Len(str) |->
        IF \E k \in 1..26 : Uppercase[k] = str[i]
        THEN Lowercase[CHOOSE k \in 1..26 : Uppercase[k] = str[i]]
        ELSE str[i]]

upper(str) ==
    [i \in 1..Len(str) |->
        IF \E k \in 1..26 : Lowercase[k] = str[i]
        THEN Uppercase[CHOOSE k \in 1..26 : Lowercase[k] = str[i]]
        ELSE str[i]]

\* str.strip(): without its leading and trailing whitespace
strip(str) ==
    LET kept == {i \in 1..Len(str) : str[i] \notin Whitespace}
    IN  IF kept = {} THEN <<>>
        ELSE SubSeq(str, CHOOSE i \in kept : \A j \in kept : i <= j,
                         CHOOSE i \in kept : \A j \in kept : i >= j)

\* str.startswith(prefix), str.endswith(suffix)
startswith(str, prefix) ==
    Len(str) >= Len(prefix) /\ SubSeq(str, 1, Len(prefix)) = prefix

endswith(str, suffix) ==
    Len(str) >= Len(suffix)
        /\ SubSeq(str, Len(str) - Len(suffix) + 1, Len(str)) = suffix

\* str.split(sep) for a one-character separator
RECURSIVE split(_, _)
split(str, sep) ==
    LET at == {i \in 1..Len(str) : str[i] = sep}
    IN  IF at = {} THEN <<str>>
        ELSE LET i == CHOOSE k \in at : \A j \in at : k <= j
             IN  <<SubSeq(str, 1, i - 1)>> \o split(SubSeq(str, i + 1, Len(str)), sep)

\* f"{n}": the decimal digits of a natural number
RECURSIVE format_d(_)
format_d(n) ==
    IF n < 10 THEN <<DecimalDigits[n + 1]>>
    ELSE format_d(n \div 10) \o <<DecimalDigits[(n % 10) + 1]>>

\* f"{n:02d}", and %Y of strftime (four digits)
RECURSIVE zero_padded(_, _)
zero_padded(n, width) ==
    LET digits == format_d(n)
    IN  IF Len(digits) >= width THEN digits
        ELSE [i \in 1..(width - Len(digits)) |-> "0"] \o digits

\* str < str
RECURSIVE str_lt(_, _)
str_lt(a, b) ==
    IF b = <<>> THEN FALSE
    ELSE IF a = <<>> THEN TRUE
    ELSE IF a[1] # b[1] THEN ord(a[1]) < ord(b[1])
    ELSE str_lt(Tail(a), Tail(b))

\* ---- datetime ----------------------------------------------------------------
datetime(year, month, day, hour) ==
    [year |-> year, month |-> month, day |-> day, hour |-> hour]

\* datetime <= datetime
datetime_le(a, b) ==
    \/ a.year < b.year
    \/ a.year = b.year /\ a.month < b.month
    \/ a.year = b.year /\ a.month = b.month /\ a.day < b.day
    \/ a.year = b.year /\ a.month = b.month /\ a.day = b.day /\ a.hour <= b.hour

days_in_month(year, month) ==
    IF month = 2
    THEN IF (year % 4 = 0 /\ year % 100 # 0) \/ year % 400 = 0 THEN 29 ELSE 28
    ELSE IF month \in {4, 6, 9, 11} THEN 30 ELSE 31

\* datetime + timedelta(days=1)
plus_one_day(d) ==
    IF d.day < days_in_month(d.year, d.month) THEN [d EXCEPT !.day = @ + 1]
    ELSE IF d.month < 12 THEN [d EXCEPT !.month = @ + 1, !.day = 1]
    ELSE [d EXCEPT !.year = @ + 1, !.month = 1, !.day = 1]

\* date.strftime('%Y%m%d')
strftime_Ymd(d) ==
    zero_padded(d.year, 4) \o zero_padded(d.month, 2) \o zero_padded(d.day, 2)

\* ---- pathlib.Path --------------------------------------------------------------
\* a path is the sequence of its parts; an absolute path starts with "/"
Root == <<"/">>
is_absolute(path) == path # <<>> /\ path[1] = Root

\* the working directory of the process
Cwd == <<Root, <<"a", "p", "p">>>>

\* the file the operating system resolves a path to
absolute(path) == IF is_absolute(path) THEN path ELSE Cwd \o path

\* path.relative_to(other) has a value
is_relative_to(path, other) ==
    Len(path) >= Len(other) /\ SubSeq(path, 1, Len(other)) = other

\* Path < Path: the parts compared in order
RECURSIVE path_lt(_, _)
path_lt(p, q) ==
    IF q = <<>> THEN FALSE
    ELSE IF p = <<>> THEN TRUE
    ELSE IF p[1] # q[1] THEN str_lt(p[1], q[1])
    ELSE path_lt(Tail(p), Tail(q))

\* sorted(paths)
RECURSIVE sorted(_)
sorted(paths) ==
    IF paths = {} THEN <<>>
    ELSE LET first == CHOOSE p \in paths : \A q \in paths \ {p} : path_lt(p, q)
         IN  <<first>> \o sorted(paths \ {first})

\* a path and its parents
parents_and_self(path) == {SubSeq(path, 1, n) : n \in 1..Len(path)}

\* ---- Optional values --------------------------------------------------------
None == <<>>
Some(x) == <<x>>

\* ---- config.database_config -------------------------------------------------
DB_PATH == "dwh.duckdb"
RAW_DATA_PATH ==
    <<<<"d", "a", "t", "a">>, <<"r", "a", "w">>,
      <<"c", "a", "s", "e", "_", "h", "i", "s", "t", "o", "r", "y">>>>
DEFAULT_MEMORY_LIMIT == "4GB"
DEFAULT_THREADS == 4

\* DuckDBAdapter(db_path, memory_limit, threads): the object __init__ leaves
DuckDBAdapter(db_path, memory_limit_arg, threads_arg) ==
    [db_path |-> db_path, memory_limit |-> memory_limit_arg,
     threads |-> threads_arg, conn |-> NoConn]

\* kwargs.get(key, default); kwargs[key] is None for a key not passed
kwargs_get(kwargs, key, default) ==
    IF kwargs[key] = None THEN default ELSE kwargs[key][1]

get_database_ExactName(s, db_type, db_path, kwargs) ==
    IF db_type = <<"d", "u", "c", "k", "d", "b">>
    THEN {Ok(s, DuckDBAdapter(db_path,
                              kwargs_get(kwargs, "memory_limit", DEFAULT_MEMORY_LIMIT),
                              kwargs_get(kwargs, "threads", DEFAULT_THREADS)))}
    ELSE {Raise(s, "ValueError")}

\* get_database(db_type, db_path, **kwargs)
get_database(s, db_type, db_path, kwargs) ==
    IF lower(db_type) = <<"d", "u", "c", "k", "d", "b">>
    THEN {Ok(s, DuckDBAdapter(db_path,
                              kwargs_get(kwargs, "memory_limit", DEFAULT_MEMORY_LIMIT),
                              kwargs_get(kwargs, "threads", DEFAULT_THREADS)))}
    ELSE {Raise(s, "ValueError")}

\* get_default_database()
get_default_database(s) ==
    get_database(s, <<"d", "u", "c", "k", "d", "b">>, DB_PATH,
                 [memory_limit |-> None, threads |-> None])

\* get_raw_data_path(date)
get_raw_data_path(date) ==
    RAW_DATA_PATH \o <<format_d(date.year), zero_padded(date.month, 2),
                       zero_padded(date.day, 2)>>

\* get_raw_file_path(date)
get_raw_file_path(date) ==
    get_raw_data_path(date)
        \o <<<<"c", "a", "s", "o", "s", "_", "r", "r", "h", "h", "_">>
               \o strftime_Ymd(date)
               \o <<".", "p", "a", "r", "q", "u", "e", "t">>>>

\* ---- config.file_utils --------------------------------------------------------
\* ensure_path_exists(path): mkdir(parents=True, exist_ok=True)
ensure_path_exists(s, path) ==
    {Ok([s EXCEPT !.dirs = @ \cup parents_and_self(absolute(path))], path)}

\* Path.exists() of a .parquet file
exists(s, path) == absolute(path) \in DOMAIN s.disk

\* the loop of list_raw_files_in_range from `current` on
RECURSIVE raw_files_from(_, _, _, _)
raw_files_from(s, current, end_date, found) ==
    IF ~datetime_le(current, end_date) THEN found
    ELSE raw_files_from(s, plus_one_day(current), end_date,
             IF exists(s, get_raw_file_path(current))
             THEN Append(found, get_raw_file_path(current))
             ELSE found)

\* list_raw_files_in_range(start_date, end_date)
list_raw_files_in_range(s, start_date, end_date) ==
    {Ok(s, raw_files_from(s, start_date, end_date, <<>>))}

\* ---- extraction.parquet_loader: ParquetLoader ---------------------------------
\* the source files on disk: absent, not a table, or a table
SourcePaths == {"missing.csv", "empty.csv", "a.csv", "b.csv", "missing.xlsx", "a.xlsx"}
SourceFile(path) ==
    IF path \in {"missing.csv", "missing.xlsx"} THEN MissingFile
    ELSE IF path = "empty.csv" THEN CorruptFile
    ELSE IF path = "b.csv" THEN ParquetFile(<<"b1", "b2">>)
    ELSE ParquetFile(<<"a1">>)

\* pd.read_csv(path), pd.read_excel(path, sheet_name)
read_source(s, path) ==
    IF SourceFile(path).state = "parquet" THEN {Ok(s, SourceFile(path).rows)}
    ELSE {Raise(s, "ParserError")}

YearKey == <<"y", "e", "a", "r", "=">>
MonthKey == <<"m", "o", "n", "t", "h", "=">>
DayKey == <<"d", "a", "y", "=">>
ParquetSuffix == <<".", "p", "a", "r", "q", "u", "e", "t">>

get_hive_partition_path_Unpadded(s, extraction_date) ==
    s.base_path \o <<YearKey \o format_d(extraction_date.year),
                     MonthKey \o format_d(extraction_date.month),
                     DayKey \o format_d(extraction_date.day)>>

\* _get_hive_partition_path(extraction_date)
get_hive_partition_path(s, extraction_date) ==
    s.base_path \o <<YearKey \o format_d(extraction_date.year),
                     MonthKey \o zero_padded(extraction_date.month, 2),
                     DayKey \o zero_padded(extraction_date.day, 2)>>

\* the file name _save_to_parquet generates
partition_filename(extraction_date) ==
    <<"c", "a", "s", "e", "_", "h", "i", "s", "t", "o", "r", "y", "_">>
        \o strftime_Ymd(extraction_date) \o ParquetSuffix

\* df.to_parquet(output_path): the file is created or replaced
to_parquet(s, df, output_path) ==
    {Ok([s EXCEPT !.disk = (absolute(output_path) :> df) @@ @], "None")}

save_to_parquet_Appends(s, df, extraction_date) ==
    Then(ensure_path_exists(s, get_hive_partition_path(s, extraction_date)), LAMBDA d :
    LET output_path == d.ret \o <<partition_filename(extraction_date)>>
    IN  Then(to_parquet(d.s, IF exists(d.s, output_path)
                             THEN d.s.disk[absolute(output_path)] \o df ELSE df,
                        output_path), LAMBDA w :
        IF is_relative_to(output_path, Cwd) THEN {Ok(w.s, output_path)}
        ELSE {Raise(w.s, "ValueError")}))

\* _save_to_parquet(df, extraction_date); the path it prints is
\* output_path.relative_to(Path.cwd())
save_to_parquet(s, df, extraction_date) ==
    Then(ensure_path_exists(s, get_hive_partition_path(s, extraction_date)), LAMBDA d :
    LET output_path == d.ret \o <<partition_filename(extraction_date)>>
    IN  Then(to_parquet(d.s, df, output_path), LAMBDA w :
        IF is_relative_to(output_path, Cwd) THEN {Ok(w.s, output_path)}
        ELSE {Raise(w.s, "ValueError")}))

load_from_csv_SavesUnchecked(s, csv_path, extraction_date, now) ==
    Then(save_to_parquet(s, SourceFile(csv_path).rows,
                         IF extraction_date = None THEN now ELSE extraction_date[1]),
         LAMBDA w :
    IF SourceFile(csv_path).state = "missing" THEN {Raise(w.s, "FileNotFoundError")}
    ELSE {w})

\* load_from_csv(csv_path, extraction_date); now is datetime.now()
load_from_csv(s, csv_path, extraction_date, now) ==
    IF SourceFile(csv_path).state = "missing" THEN {Raise(s, "FileNotFoundError")}
    ELSE Then(read_source(s, csv_path), LAMBDA df :
         save_to_parquet(df.s, df.ret,
                         IF extraction_date = None THEN now ELSE extraction_date[1]))

\* load_from_excel(excel_path, extraction_date, sheet_name)
load_from_excel(s, excel_path, extraction_date, now) ==
    IF SourceFile(excel_path).state = "missing" THEN {Raise(s, "FileNotFoundError")}
    ELSE Then(read_source(s, excel_path), LAMBDA df :
         save_to_parquet(df.s, df.ret,
                         IF extraction_date = None THEN now ELSE extraction_date[1]))

\* base_path.rglob("*.parquet"): the paths as the Loader spells them
rglob_parquet(s, base) ==
    {base \o SubSeq(p, Len(absolute(base)) + 1, Len(p)) :
        p \in {f \in DOMAIN s.disk : /\ Len(f) > Len(absolute(base))
                                     /\ is_relative_to(f, absolute(base))
                                     /\ endswith(f[Len(f)], ParquetSuffix)}}

\* the loop over file_path.parts for one key: the last part with the prefix
\* decides, its value is part.split('=')[1]
partition_value(parts, key) ==
    LET hits == {i \in 1..Len(parts) : startswith(parts[i], key)}
    IN  IF hits = {} THEN None
        ELSE Some(split(parts[CHOOSE i \in hits : \A j \in hits : i >= j], "=")[2])

summary_row_SwapsMonthDay(file_path) ==
    [year |-> partition_value(file_path, YearKey),
     month |-> partition_value(file_path, DayKey),
     day |-> partition_value(file_path, MonthKey),
     filename |-> file_path[Len(file_path)],
     full_path |-> file_path]

\* the row of get_data_summary for one file (without size and modification
\* time, which come from the file's stat)
summary_row(file_path) ==
    [year |-> partition_value(file_path, YearKey),
     month |-> partition_value(file_path, MonthKey),
     day |-> partition_value(file_path, DayKey),
     filename |-> file_path[Len(file_path)],
     full_path |-> file_path]

\* get_data_summary()
get_data_summary(s) ==
    LET found == sorted(rglob_parquet(s, s.base_path))
    IN  \* no file: pd.DataFrame(), the table without rows
        {Ok(s, [i \in 1..Len(found) |-> summary_row(found[i])])}

\* ---- the engine's partitioned read ----------------------------------------------
\* SELECT * FROM read_parquet('<raw_path>/**/*.parquet', hive_partitioning = true)
\* with WHERE <where>; where is <<"none">>, <<"clauses", conjuncts>> with the
\* conjuncts <<column, comparison, integer>>, or <<"text", sql>>
partitioned_read(raw_path, where) ==
    <<"read_parquet", raw_path \o <<<<"*", "*">>, <<"*">> \o ParquetSuffix>>, where>>

\* the integer a partition value is cast to
RECURSIVE parse_int(_)
parse_int(digits) ==
    IF digits = <<>> THEN 0
    ELSE 10 * parse_int(SubSeq(digits, 1, Len(digits) - 1))
            + (CHOOSE n \in 0..9 : DecimalDigits[n + 1] = digits[Len(digits)])

\* a partition column of a file: the integer of its key=value directory,
\* NULL (None) without such a directory
hive_column(path, key) ==
    LET value == partition_value(SubSeq(path, 1, Len(path) - 1), key)
    IN  IF value = None THEN None ELSE Some(parse_int(value[1]))

\* the partition columns the engine derives from the key=value directories
hive_columns(path) ==
    [year |-> hive_column(path, YearKey),
     month |-> hive_column(path, MonthKey),
     day |-> hive_column(path, DayKey)]

\* the files the glob of a partitioned read matches
glob_files(s, query) ==
    rglob_parquet(s, SubSeq(query[2], 1, Len(query[2]) - 2))

\* one conjunct of a WHERE clause on the partition columns of a file; a
\* comparison with NULL does not hold
clause_holds(columns, clause) ==
    /\ columns[clause[1]] # None
    /\ IF clause[2] = "=" THEN columns[clause[1]][1] = clause[3]
       ELSE IF clause[2] = ">=" THEN columns[clause[1]][1] >= clause[3]
       ELSE columns[clause[1]][1] <= clause[3]

\* the files whose rows a partitioned read over the partition columns returns
selected_files(s, query) ==
    {f \in glob_files(s, query) :
        query[3][1] = "none"
            \/ \A i \in 1..Len(query[3][2]) : clause_holds(hive_columns(f), query[3][2][i])}

\* ---- transformation.duckdb_reader: DuckDBReader ----------------------------------
\* conn.fetch_df(query) on the object `with self.db as conn` binds, the engine
\* handle connect() returned: the handle's fetch_df takes no query
conn_fetch_df(s, query) ==
    {Raise(Traced(s, <<"conn.fetch_df", query>>), "TypeError")}

\* leaving the `with` block with the results of its body: an exception of
\* __exit__ replaces the body's, else the body's outcome stands
leave_with(body) ==
    UNION {{IF x.err # "none" THEN x
            ELSE IF b.err # "none" THEN Raise(x.s, b.err)
            ELSE Ok(x.s, b.ret) : x \in exit(b.s, b.err # "none")} : b \in body}

\* `with self.db as conn: df = conn.fetch_df(query); return df`
with_db_fetch_df(s, query) ==
    Then(enter(s), LAMBDA e : leave_with(conn_fetch_df(e.s, query)))

\* read_all_cases()
read_all_cases(s) ==
    with_db_fetch_df(s, partitioned_read(RAW_DATA_PATH, <<"none">>))

\* the where_clauses of read_cases_by_date
date_clauses(year, month, day) ==
    <<<<"year", "=", year>>>>
        \o (IF month # None THEN <<<<"month", "=", month[1]>>>> ELSE <<>>)
        \o (IF day # None THEN <<<<"day", "=", day[1]>>>> ELSE <<>>)

\* read_cases_by_date(year, month, day)
read_cases_by_date(s, year, month, day) ==
    with_db_fetch_df(s, partitioned_read(RAW_DATA_PATH,
                                         <<"clauses", date_clauses(year, month, day)>>))

range_clauses_ComparesMonthWithinYear(start_date, end_date) ==
    <<<<"year", ">=", start_date.year>>, <<"year", "<=", end_date.year>>,
      <<"month", ">=", IF start_date.year = end_date.year THEN start_date.month ELSE 1>>,
      <<"month", "<=", IF start_date.year = end_date.year THEN end_date.month ELSE 12>>>>

\* the WHERE clause of read_cases_by_date_range
range_clauses(start_date, end_date) ==
    <<<<"year", ">=", start_date.year>>, <<"year", "<=", end_date.year>>,
      <<"month", ">=", start_date.month>>, <<"month", "<=", end_date.month>>>>

\* read_cases_by_date_range(start_date, end_date)
read_cases_by_date_range(s, start_date, end_date) ==
    with_db_fetch_df(s, partitioned_read(RAW_DATA_PATH,
                                         <<"clauses", range_clauses(start_date, end_date)>>))

\* get_partition_stats()
get_partition_stats(s) ==
    with_db_fetch_df(s, <<"partition_stats", RAW_DATA_PATH>>)

SELECT == <<"S", "E", "L", "E", "C", "T">>

cases_query_Unstripped(sql_filter) ==
    IF startswith(upper(sql_filter), SELECT) THEN <<"verbatim", sql_filter>>
    ELSE partitioned_read(RAW_DATA_PATH, <<"text", sql_filter>>)

\* the query query_cases runs for sql_filter
cases_query(sql_filter) ==
    IF startswith(upper(strip(sql_filter)), SELECT) THEN <<"verbatim", sql_filter>>
    ELSE partitioned_read(RAW_DATA_PATH, <<"text", sql_filter>>)

\* query_cases(sql_filter)
query_cases(s, sql_filter) ==
    with_db_fetch_df(s, cases_query(sql_filter))

\* ---- the state machine ---------------------------------------------------
\* the parquet files on disk: one path is absent, one is not a parquet file
InitialFiles ==
    [p \in ParquetPaths |->
        IF p = "missing.parquet" THEN MissingFile
        ELSE IF p = "corrupt.parquet" THEN CorruptFile
        ELSE ParquetFile(<<"r2">>)]

Statements ==
    {<<"SELECT">>, <<"INVALID">>}
        \cup {<<"DROP_IF_EXISTS", t>> : t \in TableNames}
        \cup {<<"INSERT_VALUES", t, v>> : t \in TableNames, v \in RowValues}

Queries == {<<"SELECT">>, <<"INVALID">>}

NoCall ==
    [op |-> "none", args |-> ToString(<<>>), err |-> "none", ret |-> ToString("None"),
     trace |-> <<>>]

\* the raw layer before any call
RawLayerEmpty ==
    /\ base_path = RAW_DATA_PATH
    /\ dirs = parents_and_self(Cwd)
    /\ disk = <<>>
    /\ loads = <<>>
    /\ out = NoCall

\* DuckDBAdapter.__init__ on a fresh database file
Init ==
    /\ conn = NoConn
    /\ \E c \in Configs : memory_limit = c[1] /\ threads = c[2]
    /\ open = {}
    /\ memSet = {}
    /\ thrSet = {}
    /\ nextHandle = 1
    /\ catalog = {}
    /\ tables = [t \in TableNames |-> <<>>]
    /\ files = InitialFiles
    /\ scope = "outside"
    /\ last = [op |-> "__init__", err |-> "none", ret |-> ToString("None"),
               trace |-> <<>>]
    /\ RawLayerEmpty

RECURSIVE TotalRows(_, _)
TotalRows(tbls, names) ==
    IF names = {} THEN 0
    ELSE LET t == CHOOSE x \in names : TRUE
         IN  Len(tbls[t]) + TotalRows(tbls, names \ {t})

\* the model's bounds on what a call may leave behind
WithinBounds(s) ==
    /\ s.nextHandle <= MaxHandles + 1
    /\ TotalRows(s.tables, TableNames) <= MaxRows

\* a call of method op with result r
Call(op, r) ==
    /\ WithinBounds(r.s)
    /\ conn' = r.s.conn
    /\ open' = r.s.open
    /\ memSet' = r.s.memSet
    /\ thrSet' = r.s.thrSet
    /\ nextHandle' = r.s.nextHandle
    /\ catalog' = r.s.catalog
    /\ tables' = r.s.tables
    /\ files' = r.s.files
    /\ last' = [op |-> op, err |-> r.err, ret |-> ToString(r.ret),
                trace |-> r.s.trace]
    /\ UNCHANGED <<memory_limit, threads>>
    /\ UNCHANGED <<base_path, dirs, disk, loads, out>>

Connect ==
    \E r \in connect(Cur) : Call("connect", r) /\ UNCHANGED scope

Close ==
    \E r \in close(Cur) : Call("close", r) /\ UNCHANGED scope

ExecuteCall(q) ==
    \E r \in execute(Cur, q) : Call("execute", r) /\ UNCHANGED scope

Execute == \E q \in Statements : ExecuteCall(q)

ExecuteManyCall(t, params_list) ==
    \E r \in execute_many(Cur, t, params_list) :
        Call("execute_many", r) /\ UNCHANGED scope

ExecuteMany ==
    \E t \in TableNames, params_list \in ParamLists : ExecuteManyCall(t, params_list)

FetchOne ==
    \E q \in Queries : \E r \in fetch_one(Cur, q) :
        Call("fetch_one", r) /\ UNCHANGED scope

FetchAll ==
    \E q \in Queries : \E r \in fetch_all(Cur, q) :
        Call("fetch_all", r) /\ UNCHANGED scope

FetchDf ==
    \E q \in Queries : \E r \in fetch_df(Cur, q) :
        Call("fetch_df", r) /\ UNCHANGED scope

TableExistsCall(t) ==
    \E r \in table_exists(Cur, t) : Call("table_exists", r) /\ UNCHANGED scope

TableExists == \E t \in TableNames : TableExistsCall(t)

CreateTableFromDfCall(df, t, if_exists) ==
    \E r \in create_table_from_df(Cur, df, t, if_exists) :
        Call("create_table_from_df", r) /\ UNCHANGED scope

CreateTableFromDf ==
    \E df \in Frames, t \in TableNames, if_exists \in IfExistsValues :
        CreateTableFromDfCall(df, t, if_exists)

CreateTableFromParquetCall(p, t, if_exists) ==
    \E r \in create_table_from_parquet(Cur, p, t, if_exists) :
        Call("create_table_from_parquet", r) /\ UNCHANGED scope

CreateTableFromParquet ==
    \E p \in ParquetPaths, t \in TableNames, if_exists \in IfExistsValues :
        CreateTableFromParquetCall(p, t, if_exists)

Commit ==
    \E r \in commit(Cur) : Call("commit", r) /\ UNCHANGED scope

Rollback ==
    \E r \in rollback(Cur) : Call("rollback", r) /\ UNCHANGED scope

Vacuum ==
    \E r \in vacuum(Cur) : Call("vacuum", r) /\ UNCHANGED scope

\* `with db:` is entered; the block is not entered when __enter__ raises
Enter ==
    /\ scope = "outside"
    /\ \E r \in enter(Cur) :
          /\ Call("__enter__", r)
          /\ scope' = IF r.err = "none" THEN "inside" ELSE "outside"

\* the block is left, normally (exc = FALSE) or by an exception (exc = TRUE)
ExitCall(exc) ==
    /\ scope = "inside"
    /\ \E r \in exit(Cur, exc) : Call("__exit__", r)
    /\ scope' = "outside"

Exit == \E exc \in BOOLEAN : ExitCall(exc)

Next ==
    \/ Connect
    \/ Close
    \/ Execute
    \/ ExecuteMany
    \/ FetchOne
    \/ FetchAll
    \/ FetchDf
    \/ TableExists
    \/ CreateTableFromDf
    \/ CreateTableFromParquet
    \/ Commit
    \/ Rollback
    \/ Vacuum

\* any sequence of calls of the adapter's methods
Spec == Init /\ [][Next]_vars

ScopedNext ==
    \/ Next
    \/ Enter
    \/ Exit

\* the same, with `with db:` blocks entered and left between the calls
ScopedSpec == Init /\ [][ScopedNext]_vars

\* ---- the raw layer: inputs ----------------------------------------------------
\* the names passed to get_database, and its keyword arguments
DbTypes ==
    {<<"d", "u", "c", "k", "d", "b">>, <<"D", "u", "c", "k", "D", "B">>,
     <<"D", "U", "C", "K", "D", "B">>, <<"d", "u", "c", "k", "d", "b", " ">>,
     <<"p", "o", "s", "t", "g", "r", "e", "s">>}
KwargsValues ==
    {[memory_limit |-> None, threads |-> None],
     [memory_limit |-> Some("8GB"), threads |-> Some(2)]}

\* the extraction dates of the loads: two moments of one day, and the next
\* day, in another month and year
LoadDateTimes ==
    {datetime(2024, 12, 31, 0), datetime(2024, 12, 31, 23), datetime(2025, 1, 1, 9)}
\* datetime.now() at the time of a load
NowValues == {datetime(2025, 1, 1, 9)}

\* the dates the path functions are compared on
PathDateTimes ==
    LoadDateTimes \cup {datetime(2025, 1, 1, 0), datetime(2025, 1, 15, 0),
                        datetime(2025, 2, 11, 0), datetime(2025, 11, 2, 0)}

\* the bounds of the ranges read and listed
RangeDates ==
    {datetime(2024, 12, 1, 0), datetime(2024, 12, 31, 0), datetime(2025, 1, 1, 0),
     datetime(2025, 1, 15, 0), datetime(2025, 1, 31, 0)}

\* the arguments of read_cases_by_date
Years == {2024, 2025}
Months == {None, Some(1), Some(12)}
Days == {None, Some(1), Some(31)}

\* the arguments of query_cases: "SELECT 1", " select 1", "\nSelect", "SELECTED",
\* "SELEC", "x SELECT", "year = 1", ""
SqlFilters ==
    {<<"S", "E", "L", "E", "C", "T", " ", "1">>,
     <<" ", "s", "e", "l", "e", "c", "t", " ", "1">>,
     <<"\n", "S", "e", "l", "e", "c", "t">>,
     <<"S", "E", "L", "E", "C", "T", "E", "D">>,
     <<"S", "E", "L", "E", "C">>,
     <<"x", " ", "S", "E", "L", "E", "C", "T">>,
     <<"y", "e", "a", "r", " ", "=", " ", "1">>,
     <<>>}

\* the calls the state machine makes: a range within a month whose days
\* exclude the partition of the month, a range across the year boundary, a
\* range of one day; a year, a month of a year, a day
CalledRanges ==
    {<<datetime(2025, 1, 15, 0), datetime(2025, 1, 31, 0)>>,
     <<datetime(2024, 12, 31, 0), datetime(2025, 1, 1, 0)>>,
     <<datetime(2024, 12, 31, 0), datetime(2024, 12, 31, 0)>>}
CalledDates ==
    {<<2025, None, None>>, <<2025, Some(1), None>>, <<2024, Some(12), Some(31)>>}
CalledFilters ==
    {<<" ", "s", "e", "l", "e", "c", "t", " ", "1">>,
     <<"x", " ", "S", "E", "L", "E", "C", "T">>,
     <<"y", "e", "a", "r", " ", "=", " ", "1">>}

\* a parquet file somebody put under the raw path in the layout of
\* get_raw_file_path
ForeignFile == absolute(get_raw_file_path(datetime(2025, 1, 1, 0)))

\* ---- the raw layer: the state machine -----------------------------------------
\* a Reader (its adapter from get_default_database) and a Loader on a raw
\* directory that is empty or holds a foreign file; the Loader's base path is
\* the default or the same directory spelled absolutely
PipelineInit ==
    /\ conn = NoConn
    /\ \E r \in get_default_database([trace |-> <<>>]) :
          memory_limit = r.ret.memory_limit /\ threads = r.ret.threads
    /\ open = {}
    /\ memSet = {}
    /\ thrSet = {}
    /\ nextHandle = 1
    /\ catalog = {}
    /\ tables = [t \in TableNames |-> <<>>]
    /\ files = InitialFiles
    /\ scope = "outside"
    /\ last = [op |-> "__init__", err |-> "none", ret |-> ToString("None"),
               trace |-> <<>>]
    /\ base_path \in {RAW_DATA_PATH, Cwd \o RAW_DATA_PATH}
    /\ \/ disk = <<>> /\ dirs = parents_and_self(Cwd)
       \/ /\ disk = (ForeignFile :> <<"f1">>)
          /\ dirs = parents_and_self(SubSeq(ForeignFile, 1, Len(ForeignFile) - 1))
    /\ loads = <<>>
    /\ out = NoCall

\* a call of operation op of the raw layer with arguments args and result r
RawCall(op, args, r) ==
    /\ WithinBounds(r.s)
    /\ conn' = r.s.conn
    /\ open' = r.s.open
    /\ memSet' = r.s.memSet
    /\ thrSet' = r.s.thrSet
    /\ nextHandle' = r.s.nextHandle
    /\ dirs' = r.s.dirs
    /\ disk' = r.s.disk
    /\ out' = [op |-> op, args |-> ToString(args), err |-> r.err,
               ret |-> ToString(r.ret), trace |-> r.s.trace]
    /\ UNCHANGED <<memory_limit, threads, catalog, tables, files, scope, last, base_path>>

\* the history of the loads that returned
Loaded(r, df) ==
    IF r.err # "none" THEN loads
    ELSE (absolute(r.ret) :>
            [table |-> df, n |-> IF absolute(r.ret) \in DOMAIN loads THEN 2 ELSE 1])
         @@ loads

GetDatabaseCall(db_type, kwargs) ==
    \E r \in get_database(Cur, db_type, DB_PATH, kwargs) :
        RawCall("get_database", <<db_type, kwargs>>, r) /\ UNCHANGED loads

GetDatabase ==
    \E db_type \in DbTypes, kwargs \in KwargsValues : GetDatabaseCall(db_type, kwargs)

LoadFromCsvCall(csv_path, extraction_date, now) ==
    \E r \in load_from_csv(Cur, csv_path, extraction_date, now) :
        /\ RawCall("load_from_csv", <<csv_path, extraction_date>>, r)
        /\ loads' = Loaded(r, SourceFile(csv_path).rows)

LoadFromCsv ==
    \E csv_path \in {"missing.csv", "empty.csv", "a.csv", "b.csv"},
       extraction_date \in {None} \cup {Some(d) : d \in LoadDateTimes},
       now \in NowValues :
        LoadFromCsvCall(csv_path, extraction_date, now)

LoadFromExcelCall(excel_path, extraction_date, now) ==
    \E r \in load_from_excel(Cur, excel_path, extraction_date, now) :
        /\ RawCall("load_from_excel", <<excel_path, extraction_date>>, r)
        /\ loads' = Loaded(r, SourceFile(excel_path).rows)

LoadFromExcel ==
    \E excel_path \in {"missing.xlsx", "a.xlsx"},
       extraction_date \in {None} \cup {Some(d) : d \in LoadDateTimes},
       now \in NowValues :
        LoadFromExcelCall(excel_path, extraction_date, now)

GetDataSummary ==
    \E r \in get_data_summary(Cur) :
        RawCall("get_data_summary", <<>>, r) /\ UNCHANGED loads

ListRawFilesInRangeCall(start_date, end_date) ==
    \E r \in list_raw_files_in_range(Cur, start_date, end_date) :
        /\ RawCall("list_raw_files_in_range", <<start_date, end_date>>, r)
        /\ UNCHANGED loads

ListRawFilesInRange ==
    \E range \in CalledRanges : ListRawFilesInRangeCall(range[1], range[2])

LoaderNext ==
    \/ GetDatabase
    \/ LoadFromCsv
    \/ LoadFromExcel
    \/ GetDataSummary
    \/ ListRawFilesInRange

\* any sequence of calls of the factory, the Loader and the path helper
LoaderSpec == PipelineInit /\ [][LoaderNext]_vars

\* a load that fills the raw directory the Reader reads
LoadCases ==
    \E extraction_date \in {Some(d) : d \in LoadDateTimes}, now \in NowValues :
        LoadFromCsvCall("a.csv", extraction_date, now)

ReadAllCases ==
    \E r \in read_all_cases(Cur) : RawCall("read_all_cases", <<>>, r) /\ UNCHANGED loads

ReadCasesByDateCall(year, month, day) ==
    \E r \in read_cases_by_date(Cur, year, month, day) :
        /\ RawCall("read_cases_by_date", <<year, month, day>>, r)
        /\ UNCHANGED loads

ReadCasesByDate ==
    \E date \in CalledDates : ReadCasesByDateCall(date[1], date[2], date[3])

ReadCasesByDateRangeCall(start_date, end_date) ==
    \E r \in read_cases_by_date_range(Cur, start_date, end_date) :
        /\ RawCall("read_cases_by_date_range", <<start_date, end_date>>, r)
        /\ UNCHANGED loads

ReadCasesByDateRange ==
    \E range \in CalledRanges : ReadCasesByDateRangeCall(range[1], range[2])

GetPartitionStats ==
    \E r \in get_partition_stats(Cur) :
        RawCall("get_partition_stats", <<>>, r) /\ UNCHANGED loads

QueryCasesCall(sql_filter) ==
    \E r \in query_cases(Cur, sql_filter) :
        RawCall("query_cases", <<sql_filter>>, r) /\ UNCHANGED loads

QueryCases == \E sql_filter \in CalledFilters : QueryCasesCall(sql_filter)

ReaderNext ==
    \/ LoadCases
    \/ ReadAllCases
    \/ ReadCasesByDate
    \/ ReadCasesByDateRange
    \/ GetPartitionStats
    \/ QueryCases

\* any sequence of Reader operations on a raw directory that loads fill
ReaderSpec == PipelineInit /\ [][ReaderNext]_vars

\* ---- type invariant ------------------------------------------------------
TypeOK ==
    /\ conn \in 0..MaxHandles
    /\ open \subseteq 1..MaxHandles
    /\ memSet \subseteq open
    /\ thrSet \subseteq open
    /\ nextHandle \in 1..(MaxHandles + 1)
    /\ catalog \subseteq TableNames
    /\ scope \in {"outside", "inside"}

\* ---- helpers of the properties --------------------------------------------
\* the step is a call of method op (every action records its method in last)
Called(op) == last'.op = op

\* the positions of a call in a trace
Positions(trace, call) == {i \in 1..Len(trace) : trace[i] = call}

\* the engine statements of a trace, by kind
Issued(trace, kind) == {i \in 1..Len(trace) : trace[i][1] = kind}

\* ---- C1 ------------------------------------------------------------------
\* C1: an adapter never has more than one engine connection open, the open
\* one is the handle it holds, and connect on a connected adapter opens
\* nothing and returns the handle held.
C1_AtMostOneConnection ==
    /\ [](Cardinality(open) <= 1 /\ open \subseteq {conn})
    /\ [][(Called("connect") /\ conn # NoConn) =>
            /\ conn' = conn
            /\ open' = open
            /\ nextHandle' = nextHandle
            /\ last'.ret = ToString(conn)
            /\ last'.trace = <<>>]_vars

\* connect was called on a connected adapter
C1_Witness ==
    /\ last.op = "connect"
    /\ last.err = "none"
    /\ last.trace = <<>>
    /\ conn # NoConn
    /\ last.ret = ToString(conn)

\* ---- C2 ------------------------------------------------------------------
\* C2: close on a disconnected adapter changes nothing and raises nothing;
\* close on a connected adapter closes the handle and leaves the adapter
\* disconnected; connect on a disconnected adapter opens a handle never
\* returned before and applies the memory limit and the thread count to it.
C2_CloseIdempotentReopenable ==
    [][/\ Called("close") =>
            /\ last'.err = "none"
            /\ conn' = NoConn
            /\ open' = open \ {conn}
            /\ conn = NoConn => last'.trace = <<>>
            /\ UNCHANGED <<nextHandle, catalog, tables, files>>
       /\ (Called("connect") /\ conn = NoConn) =>
            /\ conn' \notin 0..(nextHandle - 1)
            /\ conn' \in open'
            /\ last'.trace[1] = <<"open">>
            /\ last'.trace[2] = <<"SET memory_limit">>
            /\ last'.err = "none" =>
                  /\ conn' \in memSet' \cap thrSet'
                  /\ last'.trace = <<<<"open">>, <<"SET memory_limit">>,
                                     <<"SET threads">>>>]_vars

\* a connect after a close succeeded: the second handle is held and configured
C2_Witness ==
    /\ last.op = "connect"
    /\ last.err = "none"
    /\ conn = 2
    /\ open = {2}
    /\ 2 \in memSet \cap thrSet

\* ---- C3 ------------------------------------------------------------------
\* C3: leaving the scope, normally or by a failure in the body, leaves the
\* adapter disconnected with its handle closed, and rollback is invoked,
\* before close, exactly when the body failed.
C3_ScopeAlwaysReleases ==
    [][\A exc \in BOOLEAN :
          (Called("__exit__") /\ ExitCall(exc)) =>
            /\ conn' = NoConn
            /\ open' = {}
            /\ Positions(last'.trace, <<"self.close">>) # {}
            /\ exc <=> Positions(last'.trace, <<"self.rollback">>) # {}
            /\ \A i \in Positions(last'.trace, <<"self.rollback">>) :
                  \A j \in Positions(last'.trace, <<"self.close">>) : i < j]_vars

\* ---- C4 ------------------------------------------------------------------
\* C4: execute, fetch_one, fetch_all, fetch_df and table_exists on a connected
\* adapter keep the handle and open nothing; on a disconnected adapter they
\* open a handle first and run the statement last, and after a call that
\* succeeded the adapter holds an open handle.
C4_LazyConnect ==
    [][(\E op \in {"execute", "fetch_one", "fetch_all", "fetch_df", "table_exists"} :
            Called(op)) =>
          /\ conn # NoConn =>
                /\ conn' = conn
                /\ open' = open
                /\ nextHandle' = nextHandle
                /\ Issued(last'.trace, "open") = {}
          /\ conn = NoConn => last'.trace[1] = <<"open">>
          /\ last'.err = "none" =>
                /\ conn' # NoConn
                /\ open' = {conn'}
                /\ Issued(last'.trace, "open") \subseteq {1}
                /\ Len(last'.trace) \in {1, 4}]_vars

\* a fetch on a disconnected adapter connected and then ran its query
C4_Witness ==
    /\ last.op = "fetch_one"
    /\ last.err = "none"
    /\ last.trace = <<<<"open">>, <<"SET memory_limit">>, <<"SET threads">>,
                      <<"SELECT">>>>
    /\ conn \in open

\* ---- helpers of C5 .. C10 ---------------------------------------------------
\* the call's `if self.conn is None: self.connect()` raises
ConnectFails == \E c \in EnsureConnected(Cur) : c.err # "none"

\* the sources a table can be created from
Sources == {<<"df", df>> : df \in Frames} \cup {<<"parquet", p>> : p \in ParquetPaths}

\* the results of create_table_from_df / create_table_from_parquet on a source
CreateResults(src, t, if_exists) ==
    IF src[1] = "df" THEN create_table_from_df(Cur, src[2], t, if_exists)
    ELSE create_table_from_parquet(Cur, src[2], t, if_exists)

\* the statements of a kind a call issued, in the order issued
StatementsIssued(trace, kind) == SelectSeq(trace, LAMBDA c : c[1] = kind)

\* nothing but table t differs between the database and the state s
OnlyTableChanged(s, t) ==
    \A u \in TableNames \ {t} :
        /\ s.tables[u] = tables[u]
        /\ u \in s.catalog <=> u \in catalog

\* ---- C5 ------------------------------------------------------------------
\* C5: create_table_from_df(df, name, 'fail') on a table that exists raises
\* ValueError and leaves the set of tables and every table's rows as they
\* were (the one other outcome: the adapter is disconnected and connect
\* itself raises, which propagates; the tables are as they were then too).
C5_FailLeavesTable ==
    \A t \in catalog, df \in Frames :
        \A r \in create_table_from_df(Cur, df, t, "fail") :
            /\ r.err = IF ConnectFails THEN "EngineError" ELSE "ValueError"
            /\ r.s.catalog = catalog
            /\ r.s.tables = tables

\* the call was made on a table that holds rows, and raised ValueError
C5_Witness ==
    /\ last.op = "create_table_from_df"
    /\ last.err = "ValueError"
    /\ \E t \in catalog :
          /\ tables[t] # <<>>
          /\ last.trace[Len(last.trace)] = <<"COUNT_TABLES", t>>

\* ---- C6 ------------------------------------------------------------------
\* C6: after a successful create_table_from_df / create_table_from_parquet
\* with if_exists='replace' the table exists and its rows are exactly the
\* source's rows; a table that existed was dropped and then created, one
\* that did not exist was created without a drop; no other table changed.
C6_ReplaceRecreates ==
    \A src \in Sources, t \in TableNames :
        \A r \in CreateResults(src, t, "replace") :
            r.err = "none" =>
                /\ t \in r.s.catalog
                /\ r.s.tables[t] = SourceRows(Cur, src)
                /\ OnlyTableChanged(r.s, t)
                /\ StatementsIssued(r.s.trace, "CREATE_AS") = <<<<"CREATE_AS", t, src>>>>
                /\ StatementsIssued(r.s.trace, "INSERT_SELECT") = <<>>
                /\ StatementsIssued(r.s.trace, "DROP_IF_EXISTS") =
                      IF t \in catalog THEN <<<<"DROP_IF_EXISTS", t>>>> ELSE <<>>
                /\ \A i \in Issued(r.s.trace, "DROP_IF_EXISTS"),
                      j \in Issued(r.s.trace, "CREATE_AS") : i < j

\* a replace succeeded on a table that existed: it was dropped, then created
C6_Witness ==
    /\ last.op \in {"create_table_from_df", "create_table_from_parquet"}
    /\ last.err = "none"
    /\ \E t \in catalog :
          /\ StatementsIssued(last.trace, "DROP_IF_EXISTS") = <<<<"DROP_IF_EXISTS", t>>>>
          /\ Issued(last.trace, "CREATE_AS") # {}
          /\ tables[t] # <<>>

\* ---- C7 ------------------------------------------------------------------
\* C7: after a successful create_table_from_df / create_table_from_parquet
\* with if_exists='append', a table that existed holds its previous rows
\* followed by the source's rows, a table that did not exist holds exactly
\* the source's rows; either way its row count grew by the source's row
\* count (so n appends to an absent table leave r_1+...+r_n rows); and no
\* append, successful or not, drops a table or removes a row.
C7_AppendAdds ==
    \A src \in Sources, t \in TableNames :
        \A r \in CreateResults(src, t, "append") :
            /\ StatementsIssued(r.s.trace, "DROP_IF_EXISTS") = <<>>
            /\ catalog \subseteq r.s.catalog
            /\ \A u \in TableNames :
                  /\ Len(r.s.tables[u]) >= Len(tables[u])
                  /\ SubSeq(r.s.tables[u], 1, Len(tables[u])) = tables[u]
            /\ r.err = "none" =>
                  /\ t \in r.s.catalog
                  /\ r.s.tables[t] =
                        IF t \in catalog THEN tables[t] \o SourceRows(Cur, src)
                        ELSE SourceRows(Cur, src)
                  /\ Len(r.s.tables[t]) = Len(tables[t]) + Len(SourceRows(Cur, src))
                  /\ OnlyTableChanged(r.s, t)

\* an append succeeded on a table that existed, which now holds two rows
C7_Witness ==
    /\ last.op \in {"create_table_from_df", "create_table_from_parquet"}
    /\ last.err = "none"
    /\ \E t \in catalog :
          /\ Issued(last.trace, "INSERT_SELECT") # {}
          /\ last.trace[CHOOSE i \in Issued(last.trace, "INSERT_SELECT") : TRUE][2] = t
          /\ Len(tables[t]) = 2

\* ---- C8 ------------------------------------------------------------------
\* C8: the database starts without tables; table_exists(name) returns whether
\* a table of that name exists; a table comes into existence only by a
\* successful create_table call, exists right after a successful
\* create_table_from_df under every if_exists value, and ceases to exist
\* only when a DROP of it is issued.
C8_TableExistsTracksCatalog ==
    /\ [](/\ last.op = "__init__" => catalog = {}
          /\ \A t \in TableNames :
                \A r \in table_exists(Cur, t) :
                    r.err = "none" => r.ret = (t \in catalog)
          /\ \A df \in Frames, t \in TableNames, if_exists \in IfExistsValues :
                \A r \in create_table_from_df(Cur, df, t, if_exists) :
                    r.err = "none" =>
                        \A e \in table_exists(r.s, t) : e.err = "none" /\ e.ret)
    /\ [][\A t \in TableNames :
            /\ (t \notin catalog /\ t \in catalog') =>
                  /\ last'.op \in {"create_table_from_df", "create_table_from_parquet"}
                  /\ last'.err = "none"
            /\ (t \in catalog /\ t \notin catalog') =>
                  <<"DROP_IF_EXISTS", t>> \in
                      {last'.trace[i] : i \in 1..Len(last'.trace)}]_vars

\* table_exists returned true for one table while the other does not exist
C8_Witness ==
    /\ last.op = "table_exists"
    /\ last.err = "none"
    /\ last.ret = ToString(TRUE)
    /\ \E t \in catalog : last.trace[Len(last.trace)] = <<"COUNT_TABLES", t>>
    /\ catalog # TableNames

\* ---- C9 ------------------------------------------------------------------
\* C9: create_table_from_parquet on a path with no file raises
\* FileNotFoundError under every if_exists value, whether or not the table
\* exists, before anything else: no engine call is made, no connection is
\* opened, no table is dropped and no rows change.
C9_MissingFileFirst ==
    \A p \in ParquetPaths, t \in TableNames, if_exists \in IfExistsValues :
        files[p].state = "missing" =>
            \A r \in create_table_from_parquet(Cur, p, t, if_exists) :
                /\ r.err = "FileNotFoundError"
                /\ r.s.trace = <<>>
                /\ r.s.conn = conn
                /\ r.s.open = open
                /\ r.s.nextHandle = nextHandle
                /\ r.s.catalog = catalog
                /\ r.s.tables = tables

\* the call raised FileNotFoundError on a disconnected adapter with a table
C9_Witness ==
    /\ last.op = "create_table_from_parquet"
    /\ last.err = "FileNotFoundError"
    /\ conn = NoConn
    /\ open = {}
    /\ \E t \in catalog : tables[t] # <<>>

\* ---- C10 -----------------------------------------------------------------
\* C10: execute_many issues the statement for the entries of params_list in
\* list order, one statement per entry, up to and including the first entry
\* the engine rejects; the entries before it have taken effect and stay, the
\* entries after it are not issued, and the engine's error is raised. (When
\* nothing is issued and the call raises, it is connect that raised.)
C10_ExecuteManySequential ==
    \A t \in TableNames, params_list \in ParamLists :
        \A r \in execute_many(Cur, t, params_list) :
            LET stmts == StatementsIssued(r.s.trace, "INSERT_VALUES")
                n == Len(stmts)
            IN  /\ n <= Len(params_list)
                /\ \A i \in 1..n : stmts[i] = <<"INSERT_VALUES", t, params_list[i]>>
                /\ r.s.catalog = catalog
                /\ r.err = "none" =>
                      /\ n = Len(params_list)
                      /\ r.s.tables = [tables EXCEPT ![t] = @ \o params_list]
                /\ (r.err # "none" /\ n >= 1) =>
                      /\ r.err = "EngineError"
                      /\ r.s.tables =
                            [tables EXCEPT ![t] = @ \o SubSeq(params_list, 1, n - 1)]
                /\ (r.err # "none" /\ n = 0) =>
                      /\ ConnectFails
                      /\ r.s.tables = tables

\* the second entry was rejected after the first had been inserted
C10_Witness ==
    /\ last.op = "execute_many"
    /\ last.err = "EngineError"
    /\ Len(last.trace) = 2
    /\ last.trace[1][1] = "INSERT_VALUES"
    /\ last.trace[1][3] # BadParam
    /\ last.trace[2][3] = BadParam
    /\ LET rows == tables[last.trace[1][2]]
       IN  rows # <<>> /\ rows[Len(rows)] = last.trace[1][3]

\* ---- helpers of the raw-layer properties -----------------------------------------
\* two strings that differ at most in the case of their letters
SameIgnoringCase(a, b) ==
    /\ Len(a) = Len(b)
    /\ \A i \in 1..Len(a) :
          \/ a[i] = b[i]
          \/ \E k \in 1..26 : {a[i], b[i]} = {Lowercase[k], Uppercase[k]}

\* the name of the one registered backend
RegisteredName == <<"d", "u", "c", "k", "d", "b">>

\* the results of get_database for a name, whatever the keyword arguments
FactoryResults(db_type) ==
    UNION {get_database(Cur, db_type, DB_PATH, kwargs) : kwargs \in KwargsValues}

\* a result of the factory that is an adapter, not connected, with nothing opened
ReturnsAdapter(r) ==
    /\ r.err = "none"
    /\ r.ret.conn = NoConn
    /\ r.s = Cur

\* a result of the factory that is the unsupported-type error, with nothing
\* constructed and nothing opened
FailsUnsupported(r) ==
    /\ r.err = "ValueError"
    /\ r.ret = "raised"
    /\ r.s = Cur

\* ---- C11 -----------------------------------------------------------------------
\* C11 as claimed: get_database returns a not yet connected adapter for the
\* registered backend name and fails with the unsupported-type value error
\* for every other name string, constructing and opening nothing.
C11_OnlyRegisteredName ==
    \A db_type \in DbTypes, kwargs \in KwargsValues :
        (out.op = "get_database" /\ out.args = ToString(<<db_type, kwargs>>)) =>
            /\ out.err = IF db_type = RegisteredName THEN "none" ELSE "ValueError"
            /\ conn = NoConn
            /\ open = {}

\* C11: get_database returns a not yet connected adapter for every name that
\* equals the registered backend name up to the case of its letters, and
\* fails with the unsupported-type value error for every other name string,
\* constructing and opening nothing.
C11_RegisteredNameIgnoringCase ==
    \A db_type \in DbTypes : \A r \in FactoryResults(db_type) :
        IF SameIgnoringCase(db_type, RegisteredName)
        THEN ReturnsAdapter(r)
        ELSE FailsUnsupported(r)

\* get_database was called with the name in capitals and returned an adapter
C11_Witness ==
    /\ out.op = "get_database"
    /\ out.err = "none"
    /\ \E kwargs \in KwargsValues :
          out.args = ToString(<<<<"D", "U", "C", "K", "D", "B">>, kwargs>>)
    /\ conn = NoConn
    /\ open = {}

\* ---- C12 -----------------------------------------------------------------------
\* the year, month and day of a moment
Day(d) == <<d.year, d.month, d.day>>

\* the path of the file a load for extraction date d writes
OutputPath(d) ==
    get_hive_partition_path(Cur, d) \o <<partition_filename(d)>>

\* part is key=digits, the digits being those of n, exactly `width` of them
\* when width is not 0
IsPartitionSegment(part, key, n, width) ==
    \E digits \in {SubSeq(part, Len(key) + 2, Len(part))} :
        /\ part = key \o <<"=">> \o digits
        /\ digits # <<>>
        /\ \A i \in 1..Len(digits) : \E k \in 1..10 : DecimalDigits[k] = digits[i]
        /\ parse_int(digits) = n
        /\ width # 0 => Len(digits) = width

\* name is case_history_YYYYMMDD.parquet for the day of d
IsPartitionFileName(name, d) ==
    /\ Len(name) = 13 + 8 + 8
    /\ SubSeq(name, 1, 13) =
          <<"c", "a", "s", "e", "_", "h", "i", "s", "t", "o", "r", "y", "_">>
    /\ SubSeq(name, 22, 29) = <<".", "p", "a", "r", "q", "u", "e", "t">>
    /\ parse_int(SubSeq(name, 14, 17)) = d.year
    /\ parse_int(SubSeq(name, 18, 19)) = d.month
    /\ parse_int(SubSeq(name, 20, 21)) = d.day

\* path is base/year=Y/month=MM/day=DD/case_history_YYYYMMDD.parquet for d
IsPartitionFileOf(path, base, d) ==
    /\ Len(path) = Len(base) + 4
    /\ SubSeq(path, 1, Len(base)) = base
    /\ IsPartitionSegment(path[Len(base) + 1], <<"y", "e", "a", "r">>, d.year, 0)
    /\ IsPartitionSegment(path[Len(base) + 2], <<"m", "o", "n", "t", "h">>, d.month, 2)
    /\ IsPartitionSegment(path[Len(base) + 3], <<"d", "a", "y">>, d.day, 2)
    /\ IsPartitionFileName(path[Len(base) + 4], d)

\* C12: for every extraction date the Loader's partition directory is
\* base/year=<year>/month=<2-digit month>/day=<2-digit day> and the file name
\* is case_history_<YYYYMMDD>.parquet; two dates have the same output path
\* exactly if they have the same year, month and day, whatever their time of
\* day; and that is the path a load writes.
C12_PartitionPath ==
    /\ \A d \in PathDateTimes :
          /\ IsPartitionFileOf(OutputPath(d), base_path, d)
          /\ \A r \in save_to_parquet(Cur, <<"a1">>, d) :
                DOMAIN r.s.disk = DOMAIN disk \cup {absolute(OutputPath(d))}
    /\ \A d1 \in PathDateTimes, d2 \in PathDateTimes :
          OutputPath(d1) = OutputPath(d2) <=> Day(d1) = Day(d2)

\* loads for two moments of one day and for the next day, in another month
\* and year, have written two files
C12_Witness ==
    /\ out.op \in {"load_from_csv", "load_from_excel"}
    /\ DOMAIN loads = {absolute(OutputPath(datetime(2024, 12, 31, 23))),
                       absolute(OutputPath(datetime(2025, 1, 1, 9)))}
    /\ loads[absolute(OutputPath(datetime(2024, 12, 31, 0)))].n = 2

\* ---- C13 -----------------------------------------------------------------------
\* the Loader's calls: <<operation, source>> and the results for an extraction date
LoadCalls ==
    {<<"load_from_csv", p>> : p \in {"missing.csv", "empty.csv", "a.csv", "b.csv"}}
        \cup {<<"load_from_excel", p>> : p \in {"missing.xlsx", "a.xlsx"}}

LoadResults(call, extraction_date) ==
    UNION {IF call[1] = "load_from_csv"
           THEN load_from_csv(Cur, call[2], extraction_date, now)
           ELSE load_from_excel(Cur, call[2], extraction_date, now) : now \in NowValues}

\* the files in a directory
FilesIn(on_disk, dir) ==
    {p \in DOMAIN on_disk : SubSeq(p, 1, Len(p) - 1) = dir}

\* C13: after any sequence of loads that returned, the partition directory of
\* every date holds at most one file, and the file a load returned holds
\* exactly the table of the most recent such load for its date; a load
\* replaces the file of its date by its table, without the rows it held, and
\* leaves every other file as it is.
C13_OneFilePerDateLatestWins ==
    /\ \A d \in LoadDateTimes :
          Cardinality(FilesIn(disk, absolute(get_hive_partition_path(Cur, d)))) <= 1
    /\ \A p \in DOMAIN loads : p \in DOMAIN disk /\ disk[p] = loads[p].table
    /\ \A call \in LoadCalls, d \in LoadDateTimes : \A r \in LoadResults(call, Some(d)) :
          /\ \A p \in DOMAIN disk \ {absolute(OutputPath(d))} :
                p \in DOMAIN r.s.disk /\ r.s.disk[p] = disk[p]
          /\ DOMAIN r.s.disk \subseteq DOMAIN disk \cup {absolute(OutputPath(d))}
          /\ r.err = "none" => r.s.disk[absolute(OutputPath(d))] = SourceFile(call[2]).rows

\* a second load for a date has replaced the file of the first, with another
\* date's file beside it
C13_Witness ==
    /\ out.op \in {"load_from_csv", "load_from_excel"}
    /\ out.err = "none"
    /\ \E p \in DOMAIN loads, q \in DOMAIN loads :
          /\ p # q
          /\ loads[p].n = 2
          /\ out.ret = ToString(p)
          /\ disk[p] = <<"b1", "b2">>
          /\ disk[q] = <<"a1">>

\* ---- C14 -----------------------------------------------------------------------
\* C14: load_from_csv and load_from_excel fail with the not-found error when
\* the source file is missing, and then create no directory and write no
\* file; a load that returns returns the path of the partition file of its
\* extraction date (today's, when none is given), which then exists.
C14_MissingSourceWritesNothing ==
    \A call \in LoadCalls, extraction_date \in {None} \cup {Some(d) : d \in LoadDateTimes} :
        \A now \in NowValues :
            \A r \in IF call[1] = "load_from_csv"
                     THEN load_from_csv(Cur, call[2], extraction_date, now)
                     ELSE load_from_excel(Cur, call[2], extraction_date, now) :
                /\ call[2] \in {"missing.csv", "missing.xlsx"} =>
                      /\ r.err = "FileNotFoundError"
                      /\ r.s.disk = disk
                      /\ r.s.dirs = dirs
                /\ r.err = "none" =>
                      /\ IsPartitionFileOf(r.ret, base_path,
                             IF extraction_date = None THEN now ELSE extraction_date[1])
                      /\ absolute(r.ret) \in DOMAIN r.s.disk
                      /\ SubSeq(absolute(r.ret), 1, Len(absolute(r.ret)) - 1) \in r.s.dirs

\* a load of a missing source has failed on a raw directory that holds the
\* file of an earlier load
C14_Witness ==
    /\ out.op \in {"load_from_csv", "load_from_excel"}
    /\ out.err = "FileNotFoundError"
    /\ loads # <<>>
    /\ DOMAIN loads \subseteq DOMAIN disk

\* ---- C15 -----------------------------------------------------------------------
\* the value of the key=value directory of a file, None without one
SegmentValue(path, key) ==
    LET segments == {i \in 1..(Len(path) - 1) :
                        /\ Len(path[i]) > Len(key)
                        /\ SubSeq(path[i], 1, Len(key) + 1) = key \o <<"=">>}
    IN  IF segments = {} THEN None
        ELSE LET i == CHOOSE k \in segments : TRUE
             IN  Some(SubSeq(path[i], Len(key) + 2, Len(path[i])))

\* C15: get_data_summary returns the empty result, without error, when no
\* parquet file exists under the base path, and otherwise one row per file,
\* the rows in ascending order of the paths, whose year, month and day are
\* the values of the year=, month= and day= directories of the file, None
\* for a directory the path does not have.
C15_SummaryRows ==
    \A r \in get_data_summary(Cur) :
        /\ r.err = "none"
        /\ r.s = Cur
        /\ Len(r.ret) = Cardinality(DOMAIN disk)
        /\ {absolute(r.ret[i].full_path) : i \in 1..Len(r.ret)} = DOMAIN disk
        /\ \A i \in 1..Len(r.ret), j \in 1..Len(r.ret) :
              i < j => path_lt(r.ret[i].full_path, r.ret[j].full_path)
        /\ \A i \in 1..Len(r.ret) :
              /\ r.ret[i].year = SegmentValue(r.ret[i].full_path, <<"y", "e", "a", "r">>)
              /\ r.ret[i].month = SegmentValue(r.ret[i].full_path, <<"m", "o", "n", "t", "h">>)
              /\ r.ret[i].day = SegmentValue(r.ret[i].full_path, <<"d", "a", "y">>)
        /\ \A d \in LoadDateTimes :
              absolute(OutputPath(d)) \in DOMAIN disk =>
                  \E i \in 1..Len(r.ret) :
                      /\ r.ret[i].full_path = OutputPath(d)
                      /\ parse_int(r.ret[i].year[1]) = d.year
                      /\ parse_int(r.ret[i].month[1]) = d.month
                      /\ parse_int(r.ret[i].day[1]) = d.day

\* the summary was taken of a raw directory with the files of two dates and a
\* file outside the partition directories
C15_Witness ==
    /\ out.op = "get_data_summary"
    /\ out.err = "none"
    /\ ForeignFile \in DOMAIN disk
    /\ Cardinality(DOMAIN disk) = 3

\* ---- helpers of the Reader's properties ------------------------------------------
\* the queries a Reader operation handed to fetch_df
QueriesIssued(r) ==
    {r.s.trace[i][2] : i \in Issued(r.s.trace, "conn.fetch_df")}

\* the extraction dates whose partition file is on disk
DatesOnDisk == {d \in LoadDateTimes : absolute(OutputPath(d)) \in DOMAIN disk}

\* the files on disk a partitioned read selects
Selects(query) == {absolute(f) : f \in selected_files(Cur, query)}

\* the rows of a set of files, as a result returns them
RowsOf(paths) == [p \in paths |-> disk[p]]

\* a <= b as calendar dates
DayLE(a, b) ==
    \/ a.year < b.year
    \/ a.year = b.year /\ a.month < b.month
    \/ a.year = b.year /\ a.month = b.month /\ a.day <= b.day

\* ---- C16 -----------------------------------------------------------------------
\* the partition files of the dates that match year, month and day
MatchingFiles(year, month, day) ==
    {absolute(OutputPath(d)) :
        d \in {e \in DatesOnDisk : /\ e.year = year
                                   /\ month # None => e.month = month[1]
                                   /\ day # None => e.day = day[1]}}

\* C16 as claimed: read_cases_by_date(year, month, day) returns exactly the
\* rows of the partitions whose year is the given year and whose month and
\* day are the given month and day, where given; no row of another partition.
C16_ReturnsMatchingPartitions ==
    \A year \in Years, month \in Months, day \in Days :
        MatchingFiles(year, month, day) # {} =>
            \A r \in read_cases_by_date(Cur, year, month, day) :
                /\ r.err = "none"
                /\ r.ret = RowsOf(MatchingFiles(year, month, day))

C18_RangeIsCalendarRange ==
    \A start_date \in RangeDates, end_date \in RangeDates :
        LET within == {absolute(OutputPath(d)) :
                          d \in {e \in DatesOnDisk :
                                    DayLE(start_date, e) /\ DayLE(e, end_date)}}
        IN  \A r \in read_cases_by_date_range(Cur, start_date, end_date) :
                /\ \A query \in QueriesIssued(r) : Selects(query) = within
                /\ within # {} => (r.err = "none" /\ r.ret = RowsOf(within))

\* ---- C19 -----------------------------------------------------------------------
\* str begins with SELECT, after its leading whitespace and in any case
BeginsWithSelect(str) ==
    \E k \in 0..Len(str) :
        /\ \A i \in 1..k : str[i] \in {" ", "\t", "\n"}
        /\ Len(str) >= k + 6
        /\ \A i \in 1..6 :
              str[k + i] \in {<<"S", "E", "L", "E", "C", "T">>[i],
                              <<"s", "e", "l", "e", "c", "t">>[i]}

\* C19: query_cases(s) hands s itself to fetch_df if s, without its leading
\* whitespace and in any letter case, begins with SELECT, and else the
\* partitioned read of the raw path with s as its WHERE clause; one query,
\* of one of the two forms, for every s.
C19_VerbatimOrWhereClause ==
    \A sql_filter \in SqlFilters : \A r \in query_cases(Cur, sql_filter) :
        /\ Cardinality(QueriesIssued(r)) = 1
        /\ \A query \in QueriesIssued(r) :
              IF BeginsWithSelect(sql_filter)
              THEN /\ query[1] = "verbatim"
                   /\ query[2] = sql_filter
              ELSE /\ query[1] = "read_parquet"
                   /\ query[2] = RAW_DATA_PATH
                                   \o <<<<"*", "*">>,
                                        <<"*", ".", "p", "a", "r", "q", "u", "e", "t">>>>
                   /\ query[3] = <<"text", sql_filter>>

\* query_cases was called with " select 1" and handed it to fetch_df as it is
C19_Witness ==
    /\ out.op = "query_cases"
    /\ out.args = ToString(<<<<" ", "s", "e", "l", "e", "c", "t", " ", "1">>>>)
    /\ \E i \in 1..Len(out.trace) :
          /\ out.trace[i][1] = "conn.fetch_df"
          /\ out.trace[i][2] = <<"verbatim", <<" ", "s", "e", "l", "e", "c", "t", " ", "1">>>>

\* ---- C20 -----------------------------------------------------------------------
\* C20 as claimed: on a raw directory that only loads of the Loader have
\* filled, list_raw_files_in_range(start, end) returns exactly the partition
\* files of the dates from start to end, once each and in ascending order,
\* skipping the days without a file, and nothing when start is after end.
C20_HelperListsLoaderFiles ==
    ForeignFile \notin DOMAIN disk =>
        \A start_date \in RangeDates, end_date \in RangeDates :
            \A r \in list_raw_files_in_range(Cur, start_date, end_date) :
                /\ r.err = "none"
                /\ {absolute(r.ret[i]) : i \in 1..Len(r.ret)} =
                      {absolute(OutputPath(d)) :
                          d \in {e \in DatesOnDisk :
                                    DayLE(start_date, e) /\ DayLE(e, end_date)}}
                /\ \A i \in 1..Len(r.ret), j \in 1..Len(r.ret) :
                      i < j => path_lt(r.ret[i], r.ret[j])
                /\ ~DayLE(start_date, end_date) => r.ret = <<>>

\* ---- C21 -----------------------------------------------------------------------
\* the operations of the Reader
ReaderOperations ==
    {"read_all_cases", "read_cases_by_date", "read_cases_by_date_range",
     "get_partition_stats", "query_cases"}

\* C21 as claimed: a Reader operation gets its result through the adapter:
\* fetch_df(query) is called on the adapter, never on the engine handle that
\* connect returned, and once the operation has returned or failed the
\* Reader's adapter is disconnected and holds no open handle.
C21_ReadsThroughAdapter ==
    out.op \in ReaderOperations =>
        /\ Issued(out.trace, "conn.fetch_df") = {}
        /\ conn = NoConn
        /\ open = {}

\* ---- C22 -----------------------------------------------------------------------
\* C22 as claimed: whenever the adapter holds a handle, the memory limit and
\* the thread count have both been applied to that handle, also after a
\* connect in which a setting was rejected and after the calls that follow it.
C22_ConnectedMeansConfigured ==
    conn # NoConn => conn \in memSet \cap thrSet

====
